---- MODULE Spec2Model ----
(***************************************************************************)
(* Connection status functions of libpq.rs (src/connection/_status.rs).    *)
(*                                                                         *)
(* The connection is the collaborator (libpq): a record of the buffers and *)
(* integer codes the PQ* functions read. Every safe method of              *)
(* `impl Connection` is an operator from the connection to the outcome of   *)
(* the call, and an action that performs the call. The collaborator may    *)
(* change the connection between calls, and the connection may be closed.  *)
(***************************************************************************)
EXTENDS Integers, Sequences, FiniteSets, TLC

VARIABLES conn, out, held

vars == <<conn, out, held>>

(***************************************************************************)
(* Bounds                                                                  *)
(***************************************************************************)
\* raw status codes are drawn from -2 .. MaxCode
MaxCode == 15

(***************************************************************************)
(* Bytes, buffers and owned text                                           *)
(***************************************************************************)
NUL == 0

\* A foreign buffer reference: null, or the address of a nul-terminated
\* byte buffer owned by the connection.
NullBuf(a) == [null |-> TRUE, bytes |-> <<>>, addr |-> a]
Buf(b, a) == [null |-> FALSE, bytes |-> b \o <<NUL>>, addr |-> a]

\* The bytes of a buffer up to its terminator.
RECURSIVE UpToNul(_)
UpToNul(b) ==
    IF b = <<>> \/ Head(b) = NUL THEN <<>>
    ELSE <<Head(b)>> \o UpToNul(Tail(b))

\* A text value in the caller's hands: an owned copy of bytes (String), or
\* a borrow of the connection's buffer at an address.
Owned(b) == [own |-> TRUE, bytes |-> b, addr |-> ""]
Borrowed(a) == [own |-> FALSE, bytes |-> <<>>, addr |-> a]
NoText == Owned(<<>>)

s_app_db == <<97, 112, 112, 95, 100, 98>>
s_svc_user == <<115, 118, 99, 95, 117, 115, 101, 114>>
s_localhost == <<108, 111, 99, 97, 108, 104, 111, 115, 116>>
s_5432 == <<53, 52, 51, 50>>
s_TLSv13 == <<84, 76, 83, 118, 49, 46, 51>>
s_a == <<97>>
s_library == <<108, 105, 98, 114, 97, 114, 121>>
s_protocol == <<112, 114, 111, 116, 111, 99, 111, 108>>
s_key_bits == <<107, 101, 121, 95, 98, 105, 116, 115>>
s_cipher == <<99, 105, 112, 104, 101, 114>>
s_compression == <<99, 111, 109, 112, 114, 101, 115, 115, 105, 111, 110>>
s_x_ext == <<120, 95, 101, 120, 116>>
s_server_encoding == <<101, 110, 99>>
s_UTF8 == <<85, 84, 70, 56>>

(***************************************************************************)
(* Outcome of one call                                                     *)
(***************************************************************************)
NoAttr == [tag |-> "", name |-> <<>>]

\* kind: "idle" (no call yet), "text", "some", "none", "enum", "int", "ok",
\* "err", "u32", "bool", "list" are returned values; "panic" is a call that
\* did not return. tick flips at every call, so that two calls with the
\* same outcome are two steps.
Blank ==
    [op |-> "", arg |-> <<>>, attr |-> NoAttr, queries |-> <<>>, tick |-> FALSE,
     kind |-> "idle", tag |-> "", text |-> NoText, num |-> 0,
     flag |-> FALSE, list |-> <<>>, u32 |-> <<0, 0>>]

RetText(t) == [Blank EXCEPT !.kind = "text", !.text = t]
RetSome(t) == [Blank EXCEPT !.kind = "some", !.text = t]
RetNone == [Blank EXCEPT !.kind = "none"]
RetPanic(why) == [Blank EXCEPT !.kind = "panic", !.tag = why]
RetEnum(t) == [Blank EXCEPT !.kind = "enum", !.tag = t]
RetInt(n) == [Blank EXCEPT !.kind = "int", !.num = n]
RetOk(n) == [Blank EXCEPT !.kind = "ok", !.num = n]
RetErr == [Blank EXCEPT !.kind = "err"]
RetU32(w) == [Blank EXCEPT !.kind = "u32", !.u32 = w]
RetBool(b) == [Blank EXCEPT !.kind = "bool", !.flag = b]
RetList(l) == [Blank EXCEPT !.kind = "list", !.list = l]

(***************************************************************************)
(* crate::ffi : the foreign text adapter                                   *)
(***************************************************************************)
\* cstr!(s): the nul-terminated copy of s handed to the collaborator
cstr(s) == s \o <<NUL>>

\* to_string(raw): raw is required to be non-null
to_string(raw) ==
    IF raw.null THEN RetPanic("InternalInvariantViolation")
    ELSE RetText(Owned(UpToNul(raw.bytes)))

\* to_option_string(raw): null is absent
to_option_string(raw) ==
    IF raw.null THEN RetNone
    ELSE RetSome(Owned(UpToNul(raw.bytes)))

\* the entries of a null-terminated array of buffer references
RECURSIVE NtaItems(_)
NtaItems(items) ==
    IF items = <<>> \/ Head(items).null THEN <<>>
    ELSE <<UpToNul(Head(items).bytes)>> \o NtaItems(Tail(items))

\* vec_from_nta(raw): a null array has no entries
vec_from_nta(raw) == IF raw.null THEN <<>> ELSE NtaItems(raw.items)

(***************************************************************************)
(* crate::ssl::Attribute                                                   *)
(***************************************************************************)
KnownAttributes ==
    { [tag |-> "Library", name |-> s_library],
      [tag |-> "Protocol", name |-> s_protocol],
      [tag |-> "KeyBits", name |-> s_key_bits],
      [tag |-> "Cipher", name |-> s_cipher],
      [tag |-> "Compression", name |-> s_compression] }

Extension(n) == [tag |-> "Extension", name |-> n]

\* From<&String> for Attribute
AttributeFrom(n) ==
    IF \E a \in KnownAttributes : a.name = n
    THEN CHOOSE a \in KnownAttributes : a.name = n
    ELSE Extension(n)

\* Attribute::to_string
AttributeToString(a) == a.name

(***************************************************************************)
(* Status code translators                                                 *)
(***************************************************************************)
ConnectionStatusNames ==
    << "Ok", "Bad", "Started", "Made", "AwaitingResponse", "AuthOk",
       "Setenv", "SslStartup", "Needed", "CheckWritable", "Consume",
       "GssStartup", "CheckTarget" >>

TransactionStatusNames == << "Idle", "Active", "InTrans", "InError", "Unknown" >>

Translate(names, code) ==
    IF code >= 0 /\ code < Len(names) THEN RetEnum(names[code + 1])
    ELSE RetPanic("ProtocolMismatch")

\* From<ConnStatusType> for connection::Status
ConnectionStatusFrom(code) == Translate(ConnectionStatusNames, code)

\* From<PGTransactionStatusType> for transaction::Status
TransactionStatusFrom(code) == Translate(TransactionStatusNames, code)

(***************************************************************************)
(* The connection as the collaborator reports it                           *)
(***************************************************************************)
NullArray == [null |-> TRUE, items |-> <<>>]
\* a non-null array: the entries followed by the terminating null reference
Array(names) ==
    [null |-> FALSE,
     items |-> [i \in 1..Len(names) |-> Buf(names[i], "ssl_names")]
               \o <<NullBuf("ssl_names")>>]

\* The simulated connection of the round-trip scenario.
Scenario ==
    [open |-> TRUE,
     db |-> Buf(s_app_db, "db"),
     user |-> Buf(s_svc_user, "user"),
     pass |-> NullBuf("pass"),
     host |-> Buf(s_localhost, "host"),
     port |-> Buf(s_5432, "port"),
     tty |-> Buf(<<>>, "tty"),
     options |-> Buf(<<>>, "options"),
     error_message |-> Buf(<<>>, "error_message"),
     status |-> 0,
     transaction_status |-> 0,
     protocol_version |-> 3,
     server_version |-> 150003,
     socket |-> 7,
     backend_pid |-> 4242,
     needs_password |-> 0,
     used_password |-> 0,
     ssl_in_use |-> 1,
     params |-> [n \in {s_server_encoding} |-> Buf(s_UTF8, "params")],
     ssl_names |-> Array(<<s_protocol, s_cipher>>),
     ssl_values |-> [n \in {s_protocol, s_cipher} |->
                       IF n = s_protocol THEN Buf(s_TLSv13, "ssl_values")
                       ELSE NullBuf("ssl_values")]]

\* buffer references a text query may report
TextBufs(a) ==
    { NullBuf(a), Buf(<<>>, a), Buf(s_a, a), Buf(s_a \o <<NUL>> \o s_a, a) }

Int32Min == -2147483647 - 1
Int32Max == 2147483647

Codes == -2 .. MaxCode
Sockets == { Int32Min, -2, -1, 0, 1, 7, Int32Max }
Pids == { Int32Min, -65537, -65536, -2, -1, 0, 1, 65535, 65536, 4242, Int32Max }
BoolCodes == { -1, 0, 1, 2 }
NameArrays ==
    { NullArray, Array(<<>>), Array(<<s_cipher, s_protocol>>),
      Array(<<s_protocol, s_x_ext, s_cipher>>),
      Array(<<s_library, s_library, s_key_bits, s_compression>>) }

\* The states the collaborator may put the connection in: the scenario with
\* one attribute changed.
ConnStates ==
    {Scenario}
    \cup { [Scenario EXCEPT !.db = b] : b \in TextBufs("db") }
    \cup { [Scenario EXCEPT !.user = b] : b \in TextBufs("user") }
    \cup { [Scenario EXCEPT !.pass = b] : b \in TextBufs("pass") }
    \cup { [Scenario EXCEPT !.host = b] : b \in TextBufs("host") }
    \cup { [Scenario EXCEPT !.port = b] : b \in TextBufs("port") }
    \cup { [Scenario EXCEPT !.tty = b] : b \in TextBufs("tty") }
    \cup { [Scenario EXCEPT !.options = b] : b \in TextBufs("options") }
    \cup { [Scenario EXCEPT !.error_message = b] : b \in TextBufs("error_message") }
    \cup { [Scenario EXCEPT !.status = n] : n \in Codes }
    \cup { [Scenario EXCEPT !.transaction_status = n] : n \in Codes }
    \cup { [Scenario EXCEPT !.protocol_version = n] : n \in {0, 2, 3} }
    \cup { [Scenario EXCEPT !.server_version = n] : n \in {0, 90605, 150003} }
    \cup { [Scenario EXCEPT !.socket = n] : n \in Sockets }
    \cup { [Scenario EXCEPT !.backend_pid = n] : n \in Pids }
    \cup { [Scenario EXCEPT !.needs_password = n] : n \in BoolCodes }
    \cup { [Scenario EXCEPT !.used_password = n] : n \in BoolCodes }
    \cup { [Scenario EXCEPT !.ssl_in_use = n] : n \in BoolCodes }
    \cup { [Scenario EXCEPT !.params[s_server_encoding] = b] : b \in TextBufs("params") }
    \cup { [Scenario EXCEPT !.ssl_names = a] : a \in NameArrays }
    \cup { [Scenario EXCEPT !.ssl_values[s_cipher] = b] : b \in TextBufs("ssl_values") }

\* arguments the caller passes
ParamArgs == { s_server_encoding, s_x_ext }
AttributeArgs == KnownAttributes \cup { Extension(s_x_ext) }

\* PQparameterStatus: the value buffer of a tracked parameter, else null
PQparameterStatus(c, name) ==
    IF UpToNul(name) \in DOMAIN c.params THEN c.params[UpToNul(name)]
    ELSE NullBuf("params")

\* PQsslAttribute: the value buffer of a named attribute, else null
PQsslAttribute(c, name) ==
    IF UpToNul(name) \in DOMAIN c.ssl_values THEN c.ssl_values[UpToNul(name)]
    ELSE NullBuf("ssl_values")

(***************************************************************************)
(* impl Connection : the safe status methods                               *)
(***************************************************************************)
\* a required text wrongly returned as empty when the reference is null
db_null_as_empty(c) ==
    IF c.db.null THEN RetText(Owned(<<>>)) ELSE to_string(c.db)

db(c) == to_string(c.db)

\* the user name read through the database-name query
user_reads_db(c) == to_string(c.db)

user(c) == to_string(c.user)

pass(c) == to_option_string(c.pass)

host(c) == to_string(c.host)

port(c) == to_string(c.port)

tty(c) == to_option_string(c.tty)

options(c) == to_option_string(c.options)

\* the status remembered from the previous status call
status_cached(c) ==
    IF out.op = "status" THEN out
    ELSE ConnectionStatusFrom(c.status)

\* an unknown code mapped to a default state
status_default(c) ==
    IF c.status >= 0 /\ c.status < Len(ConnectionStatusNames)
    THEN ConnectionStatusFrom(c.status)
    ELSE RetEnum("Bad")

status(c) == ConnectionStatusFrom(c.status)

transaction_status(c) == TransactionStatusFrom(c.transaction_status)

parameter_status(c, param) == to_string(PQparameterStatus(c, cstr(param)))

protocol_version(c) == RetInt(c.protocol_version)

server_version(c) == RetInt(c.server_version)

\* the message handed out as a view of the connection's own buffer
error_message_borrowed(c) ==
    IF c.error_message.null THEN RetNone
    ELSE RetSome(Borrowed(c.error_message.addr))

error_message(c) == to_option_string(c.error_message)

\* descriptor 0 refused
socket_positive_only(c) == IF c.socket <= 0 THEN RetErr ELSE RetOk(c.socket)

socket(c) == IF c.socket < 0 THEN RetErr ELSE RetOk(c.socket)

\* an unsigned 32-bit integer as its two 16-bit halves <<high, low>>
Limb == 65536

\* n as u32: the same 32 bits read as unsigned
as_u32(n) == << (n \div Limb) % Limb, n % Limb >>

\* the magnitude instead of the bit pattern
backend_pid_abs(c) ==
    IF c.backend_pid < 0 /\ c.backend_pid > Int32Min
    THEN RetU32(as_u32(0 - c.backend_pid))
    ELSE RetU32(as_u32(c.backend_pid))

backend_pid(c) == RetU32(as_u32(c.backend_pid))

needs_password(c) == RetBool(c.needs_password = 1)

\* truthy-integer coercion
used_password_truthy(c) == RetBool(c.used_password # 0)

used_password(c) == RetBool(c.used_password = 1)

ssl_in_use(c) == RetBool(c.ssl_in_use = 1)

\* an empty value reported as absent
ssl_attribute_empty_is_none(c, attribute) ==
    LET raw == PQsslAttribute(c, cstr(AttributeToString(attribute)))
    IN  IF raw.null \/ UpToNul(raw.bytes) = <<>> THEN RetNone
        ELSE to_option_string(raw)

ssl_attribute(c, attribute) ==
    LET raw == PQsslAttribute(c, cstr(AttributeToString(attribute)))
    IN  IF raw.null THEN RetNone ELSE to_option_string(raw)

\* unrecognized names filtered out
ssl_attribute_names_known_only(c) ==
    LET v == vec_from_nta(c.ssl_names)
    IN  RetList(SelectSeq([i \in 1..Len(v) |-> AttributeFrom(v[i])],
                          LAMBDA a : a.tag # "Extension"))

ssl_attribute_names(c) ==
    LET v == vec_from_nta(c.ssl_names)
    IN  RetList([i \in 1..Len(v) |-> AttributeFrom(v[i])])

(***************************************************************************)
(* State machine                                                           *)
(***************************************************************************)
NotHeld == [has |-> FALSE, text |-> NoText]
Holding(t) == [has |-> TRUE, text |-> t]

\* The caller keeps the text it held, or takes the text just returned.
Hold(r) ==
    IF r.kind \in {"text", "some"} THEN {held, Holding(r.text)} ELSE {held}

\* One call on a borrowed, open connection: the queries issued to the
\* collaborator and the outcome. A panic ends the caller.
Call(op, arg, attr, q, r) ==
    /\ conn.open
    /\ out.kind # "panic"
    /\ out' = [r EXCEPT !.op = op, !.arg = arg, !.attr = attr, !.queries = q,
                         !.tick = ~out.tick]
    /\ held' \in Hold(r)
    /\ UNCHANGED conn

call_db == Call("db", <<>>, NoAttr, <<"PQdb">>, db(conn))
call_user == Call("user", <<>>, NoAttr, <<"PQuser">>, user(conn))
call_pass == Call("pass", <<>>, NoAttr, <<"PQpass">>, pass(conn))
call_host == Call("host", <<>>, NoAttr, <<"PQhost">>, host(conn))
call_port == Call("port", <<>>, NoAttr, <<"PQport">>, port(conn))
call_tty == Call("tty", <<>>, NoAttr, <<"PQtty">>, tty(conn))
call_options == Call("options", <<>>, NoAttr, <<"PQoptions">>, options(conn))
call_status == Call("status", <<>>, NoAttr, <<"PQstatus">>, status(conn))
call_transaction_status ==
    Call("transaction_status", <<>>, NoAttr, <<"PQtransactionStatus">>,
         transaction_status(conn))
call_parameter_status ==
    \E param \in ParamArgs :
        Call("parameter_status", param, NoAttr, <<"PQparameterStatus">>,
             parameter_status(conn, param))
call_protocol_version ==
    Call("protocol_version", <<>>, NoAttr, <<"PQprotocolVersion">>,
         protocol_version(conn))
call_server_version ==
    Call("server_version", <<>>, NoAttr, <<"PQserverVersion">>,
         server_version(conn))
call_error_message ==
    Call("error_message", <<>>, NoAttr, <<"PQerrorMessage">>, error_message(conn))
call_socket == Call("socket", <<>>, NoAttr, <<"PQsocket">>, socket(conn))
call_backend_pid ==
    Call("backend_pid", <<>>, NoAttr, <<"PQbackendPID">>, backend_pid(conn))
call_needs_password ==
    Call("needs_password", <<>>, NoAttr, <<"PQconnectionNeedsPassword">>,
         needs_password(conn))
call_used_password ==
    Call("used_password", <<>>, NoAttr, <<"PQconnectionUsedPassword">>,
         used_password(conn))
call_ssl_in_use ==
    Call("ssl_in_use", <<>>, NoAttr, <<"PQsslInUse">>, ssl_in_use(conn))
call_ssl_attribute ==
    \E attribute \in AttributeArgs :
        Call("ssl_attribute", <<>>, attribute, <<"PQsslAttribute">>,
             ssl_attribute(conn, attribute))
call_ssl_attribute_names ==
    Call("ssl_attribute_names", <<>>, NoAttr, <<"PQsslAttributeNames">>,
         ssl_attribute_names(conn))

\* Between calls the collaborator completes or fails a command, or resets
\* the connection: codes and buffers of the connection change.
LaterStates ==
    { Scenario,
      [Scenario EXCEPT !.status = 1],
      [Scenario EXCEPT !.status = Len(ConnectionStatusNames)],
      [Scenario EXCEPT !.transaction_status = 2],
      [Scenario EXCEPT !.transaction_status = 3],
      [Scenario EXCEPT !.error_message = Buf(s_a, "error_message")],
      [Scenario EXCEPT !.error_message = NullBuf("error_message")],
      [Scenario EXCEPT !.db = Buf(s_a, "db")] }

Mutate ==
    /\ conn.open
    /\ out.kind # "panic"
    /\ \E c \in LaterStates : c # conn /\ conn' = c
    /\ UNCHANGED <<out, held>>

\* The connection is closed: its buffers are released.
Close ==
    /\ conn.open
    /\ out.kind # "panic"
    /\ conn' = [conn EXCEPT !.open = FALSE]
    /\ UNCHANGED <<out, held>>

Init ==
    /\ conn \in ConnStates
    /\ out = Blank
    /\ held = NotHeld

Next ==
    \/ call_db
    \/ call_user
    \/ call_pass
    \/ call_host
    \/ call_port
    \/ call_tty
    \/ call_options
    \/ call_status
    \/ call_transaction_status
    \/ call_parameter_status
    \/ call_protocol_version
    \/ call_server_version
    \/ call_error_message
    \/ call_socket
    \/ call_backend_pid
    \/ call_needs_password
    \/ call_used_password
    \/ call_ssl_in_use
    \/ call_ssl_attribute
    \/ call_ssl_attribute_names
    \/ Mutate
    \/ Close

Spec == Init /\ [][Next]_vars

(***************************************************************************)
(* What the caller holds                                                   *)
(***************************************************************************)
TextFields ==
    { "db", "user", "pass", "host", "port", "tty", "options", "error_message" }

BufferAt(c, a) == IF a \in TextFields THEN c[a] ELSE NullBuf(a)

\* A held text can be read: an owned copy always, a borrow only while the
\* connection is open and the buffer is there.
Valid(t, c) == t.own \/ (c.open /\ ~BufferAt(c, t.addr).null)

\* The bytes a held text reads as.
Content(t, c) == IF t.own THEN t.bytes ELSE UpToNul(BufferAt(c, t.addr).bytes)

\* A step that is the call of method op.
Called(op) == conn' = conn /\ out'.op = op

(***************************************************************************)
(* Claims                                                                  *)
(***************************************************************************)
InRange(names, code) == code \in 0 .. (Len(names) - 1)
StatesOf(names) == { names[i] : i \in 1..Len(names) }

\* C1: status and transaction_status return a defined enumeration state for
\* a code in the documented range, and fail with ProtocolMismatch, returning
\* no state at all, for every code outside it.
C1_CodesTranslatedOrRejected ==
    [][ /\ Called("status") =>
            IF InRange(ConnectionStatusNames, conn.status)
            THEN /\ out'.kind = "enum"
                 /\ out'.tag \in StatesOf(ConnectionStatusNames)
            ELSE /\ out'.kind = "panic"
                 /\ out'.tag = "ProtocolMismatch"
        /\ Called("transaction_status") =>
            IF InRange(TransactionStatusNames, conn.transaction_status)
            THEN /\ out'.kind = "enum"
                 /\ out'.tag \in StatesOf(TransactionStatusNames)
            ELSE /\ out'.kind = "panic"
                 /\ out'.tag = "ProtocolMismatch"
      ]_vars

C1_Witness ==
    /\ out.op = "status"
    /\ conn.status = Len(ConnectionStatusNames)
    /\ out.kind = "panic"
    /\ out.tag = "ProtocolMismatch"

\* C2: socket returns the error outcome for every negative raw value and
\* Ok(r) with the same integer for every raw value r >= 0.
C2_SocketSign ==
    [][ Called("socket") =>
            /\ IF conn.socket < 0 THEN out'.kind = "err"
               ELSE out'.kind = "ok" /\ out'.num = conn.socket
            /\ out'.kind = "ok" => out'.num >= 0
      ]_vars

C2_Witness ==
    /\ out.op = "socket"
    /\ conn.socket = 0
    /\ out.kind = "ok"
    /\ out.num = 0

\* The buffer reference the collaborator reports to an optional-text accessor.
OptionalRaw(c, o) ==
    IF o.op = "ssl_attribute"
    THEN PQsslAttribute(c, AttributeToString(o.attr) \o <<NUL>>)
    ELSE c[o.op]

OptionalOps == { "pass", "tty", "options", "error_message", "ssl_attribute" }

\* C3: an optional-text accessor returns None for a null reference and
\* Some(copy of the bytes) for a non-null one, an empty buffer included.
C3_NullIsNoneEmptyIsSome ==
    [][ \A op \in OptionalOps :
          Called(op) =>
            LET raw == OptionalRaw(conn, out')
            IN  IF raw.null THEN out'.kind = "none"
                ELSE /\ out'.kind = "some"
                     /\ out'.text.own
                     /\ out'.text.bytes = UpToNul(raw.bytes)
      ]_vars

C3_Witness ==
    /\ out.op = "ssl_attribute"
    /\ out.attr.tag = "Cipher"
    /\ conn.ssl_values[s_cipher] = Buf(<<>>, "ssl_values")
    /\ out.kind = "some"
    /\ out.text.bytes = <<>>

\* The buffer reference the collaborator reports to a required-text accessor.
RequiredRaw(c, o) ==
    IF o.op = "parameter_status"
    THEN PQparameterStatus(c, o.arg \o <<NUL>>)
    ELSE c[o.op]

RequiredOps == { "db", "user", "host", "port", "parameter_status" }

\* C4: a required-text accessor given a null reference panics and returns
\* nothing, and nothing runs after the panic.
C4_NullRequiredPanics ==
    [][ /\ \A op \in RequiredOps :
              (Called(op) /\ RequiredRaw(conn, out').null) => out'.kind = "panic"
        /\ out.kind # "panic"
      ]_vars

C4_Witness ==
    /\ out.op = "db"
    /\ conn.db.null
    /\ out.kind = "panic"

\* C5: a text handed to the caller is an owned copy: whatever happens next
\* (a change of the connection's buffers, another call, closing the
\* connection) it stays readable and reads the same bytes, and no call hands
\* out a reference into a connection-owned buffer.
C5_CopyOut ==
    [][ /\ held.has =>
              /\ Valid(held.text, conn')
              /\ Content(held.text, conn') = Content(held.text, conn)
        /\ out'.kind \in {"text", "some"} => out'.text.own
        /\ held'.has => held'.text.own
      ]_vars

C5_Witness ==
    /\ held.has
    /\ held.text.bytes = s_a
    /\ out.op = "error_message"
    /\ out.kind = "some"
    /\ out.text = held.text
    /\ ~conn.open
    /\ conn.error_message.null

\* C6: ssl_attribute_names returns one entry per name of the collaborator's
\* array, in order, each carrying its name under its known tag or under the
\* extension tag; a null array gives the empty sequence.
C6_NamesInOrder ==
    [][ Called("ssl_attribute_names") =>
          LET names == vec_from_nta(conn.ssl_names)
          IN  /\ out'.kind = "list"
              /\ Len(out'.list) = Len(names)
              /\ \A i \in 1..Len(names) :
                    /\ out'.list[i].name = names[i]
                    /\ \/ out'.list[i] \in KnownAttributes
                       \/ /\ out'.list[i].tag = "Extension"
                          /\ \A a \in KnownAttributes : a.name # names[i]
              /\ conn.ssl_names.null => out'.list = <<>>
      ]_vars

C6_Witness ==
    /\ out.op = "ssl_attribute_names"
    /\ conn.ssl_names = Array(<<s_protocol, s_x_ext, s_cipher>>)
    /\ Len(out.list) = 3
    /\ out.list[1].tag = "Protocol"
    /\ out.list[2] = Extension(s_x_ext)
    /\ out.list[3].tag = "Cipher"

\* C7: on the scenario connection every call returns the scenario's value,
\* whatever was called before it.
C7_RoundTrip ==
    [][ conn = Scenario =>
          /\ Called("db") => out'.kind = "text" /\ out'.text = Owned(s_app_db)
          /\ Called("user") => out'.kind = "text" /\ out'.text = Owned(s_svc_user)
          /\ Called("pass") => out'.kind = "none"
          /\ Called("status") => out'.kind = "enum" /\ out'.tag = "Ok"
          /\ Called("transaction_status") => out'.kind = "enum" /\ out'.tag = "Idle"
          /\ Called("protocol_version") => out'.kind = "int" /\ out'.num = 3
          /\ Called("server_version") => out'.kind = "int" /\ out'.num = 150003
          /\ Called("socket") => out'.kind = "ok" /\ out'.num = 7
          /\ Called("ssl_attribute_names") =>
                /\ out'.kind = "list"
                /\ out'.list = << [tag |-> "Protocol", name |-> s_protocol],
                                  [tag |-> "Cipher", name |-> s_cipher] >>
          /\ (Called("ssl_attribute") /\ out'.attr.tag = "Protocol") =>
                out'.kind = "some" /\ out'.text = Owned(s_TLSv13)
          /\ (Called("ssl_attribute") /\ out'.attr.tag = "Cipher") =>
                out'.kind = "none"
      ]_vars

C7_Witness ==
    /\ conn = Scenario
    /\ held.has
    /\ held.text = Owned(s_svc_user)
    /\ out.op = "ssl_attribute"
    /\ out.attr.tag = "Protocol"
    /\ out.kind = "some"
    /\ out.text = Owned(s_TLSv13)

BoolOps == { "needs_password", "used_password", "ssl_in_use" }

\* C8: needs_password, used_password and ssl_in_use return true exactly when
\* the raw code is 1.
C8_TrueOnlyForOne ==
    [][ \A op \in BoolOps :
          Called(op) => out'.kind = "bool" /\ (out'.flag <=> conn[op] = 1)
      ]_vars

C8_Witness ==
    /\ out.op = "used_password"
    /\ conn.used_password = 2
    /\ out.kind = "bool"
    /\ out.flag = FALSE

\* C9: a call issues exactly one query to the collaborator and leaves the
\* connection as it was, and status and transaction_status translate the
\* code the connection holds when they are called.
C9_ReadOnlyAndFresh ==
    [][ /\ out' # out =>
              /\ conn' = conn
              /\ Len(out'.queries) = 1
        /\ Called("status") =>
              /\ out'.kind = ConnectionStatusFrom(conn.status).kind
              /\ out'.tag = ConnectionStatusFrom(conn.status).tag
        /\ Called("transaction_status") =>
              /\ out'.kind = TransactionStatusFrom(conn.transaction_status).kind
              /\ out'.tag = TransactionStatusFrom(conn.transaction_status).tag
      ]_vars

C9_Witness ==
    /\ conn = [Scenario EXCEPT !.status = 1]
    /\ out.op = "status"
    /\ out.tag = "Bad"
    /\ held.has
    /\ held.text = Owned(s_a)

\* C10: backend_pid is the raw signed value read as unsigned 32 bits: r for
\* r >= 0 and r + 2^32 for r < 0, given as the halves <<high, low>> of the
\* result high * 2^16 + low.
C10_PidAsUnsigned ==
    [][ Called("backend_pid") =>
          LET r == conn.backend_pid
              hi == out'.u32[1]
              lo == out'.u32[2]
          IN  /\ out'.kind = "u32"
              /\ hi \in 0 .. (Limb - 1)
              /\ lo \in 0 .. (Limb - 1)
              /\ IF r >= 0
                 THEN hi < Limb \div 2 /\ hi * Limb + lo = r
                 ELSE hi >= Limb \div 2 /\ (hi - Limb) * Limb + lo = r
      ]_vars

C10_Witness ==
    /\ out.op = "backend_pid"
    /\ conn.backend_pid = -1
    /\ out.kind = "u32"
    /\ out.u32 = << Limb - 1, Limb - 1 >>

====
